---------------------------- MODULE Spec2Model ----------------------------
(***************************************************************************)
(* Model of the real-time inference client (src/realtime_inference.py)     *)
(* and, further down, of the data generator                                *)
(* (src/generate_historical_data.py).  The two programs do not interact:   *)
(* Spec is the client, LoopSpec the client's thread inside loop_forever()  *)
(* seen frame by frame, GenSpec the generator.                             *)
(*                                                                         *)
(* main() runs on one thread: it loads the classifier, creates the MQTT    *)
(* client, connects once and then blocks in client.loop_forever().  The    *)
(* MQTT library calls on_connect and on_message synchronously from inside  *)
(* that loop.  Everything observable (console lines, calls into the        *)
(* library, the classifier and the model loader, and events the library    *)
(* delivers) is appended to `trace`, in program order.                     *)
(*                                                                         *)
(* Numbers: a Python float read from a payload is an integer count of      *)
(* thousandths (95.0 is 95000); text produced by the format ":.2f" is an   *)
(* integer count of hundredths ("95.00" is 9500); a classifier output is   *)
(* an integer count of tenths (0.6 is 6, 1 is 10).                         *)
(***************************************************************************)
EXTENDS Integers, Sequences, FiniteSets

VARIABLES
    pc,        \* position of main(): see PcValues
    model,     \* local `model` of main(): the loaded classifier, or "none"
    userdata,  \* the client's userdata dict, or NoClient before the client exists
    conn,      \* state of the client's broker session, as the library holds it
    inbox,     \* messages the library has dispatched to on_message, in order
    pending,   \* exception propagating out of loop_forever(), or "none"
    reconnects,\* automatic reconnect attempts made by loop_forever()
    trace,     \* everything observable, in program order
    loop,      \* the calling thread inside loop_forever(), frame by frame
    gen        \* the data generator (src/generate_historical_data.py)

vars == <<pc, model, userdata, conn, inbox, pending, reconnects, trace, loop, gen>>

-----------------------------------------------------------------------------
(* Bounds of the model. *)

MaxMsgs == 2
MaxReconnects == 1
MaxLoopMsgs == 4
ModelRows == 30

-----------------------------------------------------------------------------
(* Program constants. *)

TOPIC == "factory/telemetry"
SUBSCRIBE_QOS == 1

PcValues == {"start", "loaded", "created", "connected", "loop", "finally",
             "exited", "crashed"}

ConnValues == {"Disconnected", "Connecting", "Connected", "Subscribed", "Lost"}

NoClient == [model |-> "no-client"]

\* The other two specifications' variables, while they are not running.
NoLoop == [stack |-> <<>>]
NoGen  == [pc |-> "off"]

\* The object joblib.load() can return: whichever classifier the artifact holds.
Artifacts == {"rf_a", "rf_b"}

-----------------------------------------------------------------------------
(* Observable events. *)

Ev(ch, kind, msg, t, v, s) ==
    [ch |-> ch, kind |-> kind, msg |-> msg, t |-> t, v |-> v, s |-> s]

Console(kind, msg, t, v, s) == Ev("print", kind, msg, t, v, s)
Call(kind, msg, t, v, s)  == Ev("call", kind, msg, t, v, s)
Lib(kind, msg, v)         == Ev("lib", kind, msg, 0, v, "")
Raise(exc, msg)           == Ev("raise", exc, msg, 0, 0, "")


-----------------------------------------------------------------------------
(* Python exceptions: the part of the built-in class hierarchy the handlers *)
(* rely on.  IsInstance(e, c) is what `except c` tests.                     *)

Parent(e) ==
    CASE e = "UnicodeDecodeError" -> "ValueError"
      [] e = "JSONDecodeError"    -> "ValueError"
      [] e = "ValueError"         -> "Exception"
      [] e = "TypeError"          -> "Exception"
      [] e = "KeyError"           -> "LookupError"
      [] e = "IndexError"         -> "LookupError"
      [] e = "LookupError"        -> "Exception"
      [] e = "OverflowError"      -> "ArithmeticError"
      [] e = "ArithmeticError"    -> "Exception"
      [] e = "Exception"          -> "BaseException"
      [] e = "KeyboardInterrupt"  -> "BaseException"
      [] OTHER                    -> "BaseException"

RECURSIVE IsInstance(_, _)
IsInstance(e, c) ==
    IF e = c THEN TRUE
    ELSE IF e = "BaseException" THEN FALSE
    ELSE IsInstance(Parent(e), c)

CaughtBy(e, classes) == \E c \in classes : IsInstance(e, c)

\* Results of a Python expression: a value, or a raised exception.
Ok(n)   == [ok |-> TRUE, n |-> n, exc |-> "none"]
Err(e)  == [ok |-> FALSE, n |-> 0, exc |-> e]

-----------------------------------------------------------------------------
(* Inbound payloads.  A payload is the bytes of one MQTT message, described *)
(* by what decode("utf-8"), json.loads and the two subscripts make of it.   *)
(*   enc   "utf8" | "bad"         whether the bytes are valid UTF-8         *)
(*   text  "json" | "garbage"     whether the text is a JSON document       *)
(*   top   "object" | "array" | "string" | "number" | "null"                *)
(*   temperature, vibration       the object's members (FieldVal)           *)
(*   extra                        whether the object has other members      *)
(* A FieldVal is [ty, n]:                                                   *)
(*   "absent"  no such key          "number"  a JSON number within float    *)
(*   "bigint"  a JSON integer literal too large for a float (1 followed by  *)
(*             400 zeros): json.loads yields an exact Python int            *)
(*   "numstr"  a JSON string holding a number ("95.0")                      *)
(*   "str"     any other JSON string      "null"  JSON null                 *)

FV(ty, n) == [ty |-> ty, n |-> n]
Absent    == FV("absent", 0)
Num(n)    == FV("number", n)
BigInt    == FV("bigint", 0)
NumStr(n) == FV("numstr", n)
Str       == FV("str", 0)
Null      == FV("null", 0)

Payload(enc, text, top, t, v, extra) ==
    [enc |-> enc, text |-> text, top |-> top,
     temperature |-> t, vibration |-> v, extra |-> extra]

Obj(t, v)      == Payload("utf8", "json", "object", t, v, FALSE)
ObjExtra(t, v) == Payload("utf8", "json", "object", t, v, TRUE)

P_bad_utf8 == Payload("bad", "garbage", "null", Absent, Absent, FALSE)
P_not_json == Payload("utf8", "garbage", "null", Absent, Absent, FALSE)
P_array    == Payload("utf8", "json", "array", Absent, Absent, FALSE)
P_no_temp  == Obj(Absent, Num(4200))
P_vib_str  == Obj(Num(95000), Str)
P_big_temp == Obj(BigInt, Num(4200))
P_anomaly  == Obj(Num(95000), Num(4200))
\* A normal reading that needs rounding (68.004, 1.796), its temperature sent
\* as numeric text, with another member beside the two.
P_normal   == ObjExtra(NumStr(68004), Num(1796))

BadPayloads  == {P_bad_utf8, P_not_json, P_array, P_no_temp, P_vib_str,
                 P_big_temp}
GoodPayloads == {P_anomaly, P_normal}

\* msg.payload.decode("utf-8")
Decode(p) == IF p.enc = "utf8" THEN Ok(0) ELSE Err("UnicodeDecodeError")

\* json.loads(payload_str)
JsonLoads(p) == IF p.text = "json" THEN Ok(0) ELSE Err("JSONDecodeError")

\* data[key], for data the value json.loads returned
GetItem(p, key) ==
    IF p.top # "object" THEN Err("TypeError")
    ELSE IF p[key].ty = "absent" THEN Err("KeyError")
    ELSE Ok(0)

\* float(x), for x a value json.loads produced
PyFloat(x) ==
    CASE x.ty = "number" -> Ok(x.n)
      [] x.ty = "numstr" -> Ok(x.n)
      [] x.ty = "bigint" -> Err("OverflowError")
      [] x.ty = "str"    -> Err("ValueError")
      [] OTHER           -> Err("TypeError")

\* float(data[key])
Field(p, key) ==
    IF GetItem(p, key).ok THEN PyFloat(p[key]) ELSE GetItem(p, key)

\* f"{x:.2f}": thousandths to the nearest hundredth, ties to even.
Fmt2(x) ==
    LET a  == IF x < 0 THEN -x ELSE x
        q  == a \div 10
        r  == a % 10
        up == r > 5 \/ (r = 5 /\ q % 2 = 1)
        m  == IF up THEN q + 1 ELSE q
    IN  IF x < 0 THEN -m ELSE m

-----------------------------------------------------------------------------
(* The classifier.  What model.predict(X) does is not this program's        *)
(* choice; an Outcome says what one call does:                              *)
(*   "raises"  predict raises                                               *)
(*   "number"  it returns an array whose element 0 is the number n/10       *)
(*   "nan"     element 0 is NaN                                             *)

Outcome(k, n) == [k |-> k, n |-> n]
Raises  == Outcome("raises", 0)
Label(n) == Outcome("number", n)
NaN     == Outcome("nan", 0)

Outcomes == {Raises, Label(0), Label(10), Label(6), Label(19), NaN}

\* model.predict(X)[0]
Predict(o) == IF o.k = "raises" THEN Err("ValueError") ELSE Ok(0)

\* A cast that rounds to the nearest integer instead of truncating.
PyIntRound(o) ==
    IF o.k = "number"
    THEN Ok(IF o.n >= 0 THEN (o.n + 5) \div 10 ELSE -((-o.n + 5) \div 10))
    ELSE Err("ValueError")

\* int(prediction): truncation toward zero; NaN raises.
PyInt(o) ==
    IF o.k = "number"
    THEN Ok(IF o.n >= 0 THEN o.n \div 10 ELSE -((-o.n) \div 10))
    ELSE Err("ValueError")

\* What the broker can deliver together with what the classifier then does.
Inputs ==
    (BadPayloads \X {Label(0)})
    \cup ({P_anomaly} \X Outcomes)
    \cup {<<P_normal, Label(0)>>}

-----------------------------------------------------------------------------
(* The callbacks and the steps of main(), as functions from their inputs to *)
(* the events they produce, in order.  An exception that leaves a function  *)
(* is its last event, Raise(exc, msg).                                      *)

Escapes(evs) == Len(evs) > 0 /\ evs[Len(evs)].ch = "raise"

\* The row with its two columns in the other order.
build_features_swapped(temperature, vibration) ==
    << <<"vibration", vibration>>, <<"temperature", temperature>> >>

\* build_features: one row, columns in the order temperature, vibration.
build_features(temperature, vibration) ==
    << <<"temperature", temperature>>, <<"vibration", vibration>> >>

\* The alert text of on_message, for the label int(prediction) gave.
alert_text(id, label, temperature, vibration) ==
    IF label = 1
    THEN Console("alert_anomaly", id, Fmt2(temperature), Fmt2(vibration), "")
    ELSE Console("alert_normal", id, Fmt2(temperature), Fmt2(vibration), "")

\* The text printed in its branch and once more at the end.
print_alert_twice(id, label, temperature, vibration) ==
    <<alert_text(id, label, temperature, vibration),
      alert_text(id, label, temperature, vibration)>>

\* Alerts held back after the first one, by a count kept across messages.
print_alert_rate_limited(id, label, temperature, vibration) ==
    IF id > 1 THEN <<>> ELSE <<alert_text(id, label, temperature, vibration)>>

\* on_message, lines 126-139: the text is built, then printed once.
print_alert(id, label, temperature, vibration) ==
    <<alert_text(id, label, temperature, vibration)>>

on_message(ud, id, p, o) ==
    LET parsed      == IF Decode(p).ok THEN JsonLoads(p) ELSE Decode(p)
        temperature == Field(p, "temperature")
        vibration   == Field(p, "vibration")
        fields      == IF temperature.ok THEN vibration ELSE temperature
        X           == build_features(temperature.n, vibration.n)
        query       == Call("predict", id, X[1][2], X[2][2], ud.model)
        prediction  == Predict(o)
        label       == PyInt(o)
    IN  IF ud.model = "none"
        THEN <<Console("no_model", id, 0, 0, "")>>
        ELSE IF ~parsed.ok
        THEN IF CaughtBy(parsed.exc, {"Exception"})
             THEN <<Console("parse_failed", id, 0, 0, parsed.exc)>>
             ELSE <<Raise(parsed.exc, id)>>
        ELSE IF ~fields.ok
        THEN IF CaughtBy(fields.exc, {"KeyError", "TypeError", "ValueError"})
             THEN <<Console("invalid_fields", id, 0, 0, fields.exc)>>
             ELSE <<Raise(fields.exc, id)>>
        ELSE IF ~prediction.ok
        THEN IF CaughtBy(prediction.exc, {"Exception"})
             THEN <<query, Console("predict_failed", id, 0, 0, prediction.exc)>>
             ELSE <<query, Raise(prediction.exc, id)>>
        ELSE IF ~label.ok
        THEN <<query, Raise(label.exc, id)>>
        ELSE <<query>> \o print_alert(id, label.n, temperature.n, vibration.n)

\* Subscribes whatever the result code.
on_connect_always_subscribes(rc) ==
    <<Console(IF rc = 0 THEN "connected" ELSE "connection_failed", 0, 0, rc, ""),
      Call("subscribe", 0, 0, SUBSCRIBE_QOS, TOPIC)>>

on_connect(rc) ==
    IF rc = 0
    THEN <<Console("connected", 0, 0, 0, ""),
           Call("subscribe", 0, 0, SUBSCRIBE_QOS, TOPIC)>>
    ELSE <<Console("connection_failed", 0, 0, rc, "")>>

\* load_model: `loaded` is the object joblib.load returns, "none" if it raises.
load_model(loaded) ==
    IF loaded = "none"
    THEN <<Console("loading_model", 0, 0, 0, ""), Call("joblib.load", 0, 0, 0, ""),
           Raise("Exception", 0)>>
    ELSE <<Console("loading_model", 0, 0, 0, ""), Call("joblib.load", 0, 0, 0, ""),
           Console("model_loaded", 0, 0, 0, "")>>

\* A client whose userdata does not carry the loaded classifier.
create_mqtt_client_no_model(m) == [model |-> "none"]

\* create_mqtt_client: the userdata the new client carries.
create_mqtt_client(m) == [model |-> m]

\* The except clause without its return: main goes on to the loop.
main_connect_no_return(ok) ==
    IF ok
    THEN [evs |-> <<Console("connecting", 0, 0, 0, ""), Call("connect", 0, 0, 0, "")>>,
          pc |-> "connected", conn |-> "Connecting"]
    ELSE [evs |-> <<Console("connecting", 0, 0, 0, ""), Call("connect", 0, 0, 0, ""),
                    Console("connect_failed", 0, 0, 0, "")>>,
          pc |-> "connected", conn |-> "Disconnected"]

\* The except clause calling connect a second time.
main_connect_retry(ok) ==
    IF ok
    THEN [evs |-> <<Console("connecting", 0, 0, 0, ""), Call("connect", 0, 0, 0, "")>>,
          pc |-> "connected", conn |-> "Connecting"]
    ELSE [evs |-> <<Console("connecting", 0, 0, 0, ""), Call("connect", 0, 0, 0, ""),
                    Console("connect_failed", 0, 0, 0, ""), Call("connect", 0, 0, 0, "")>>,
          pc |-> "connected", conn |-> "Connecting"]

\* main, lines 177-182: the one connect call; `ok` is whether it returns.
main_connect(ok) ==
    IF ok
    THEN [evs |-> <<Console("connecting", 0, 0, 0, ""), Call("connect", 0, 0, 0, "")>>,
          pc |-> "connected", conn |-> "Connecting"]
    ELSE [evs |-> <<Console("connecting", 0, 0, 0, ""), Call("connect", 0, 0, 0, ""),
                    Console("connect_failed", 0, 0, 0, "")>>,
          pc |-> "exited", conn |-> "Disconnected"]

\* The finally block without the try around disconnect.
main_finally_unguarded(ok, pend) ==
    IF ok
    THEN [evs |-> <<Call("disconnect", 0, 0, 0, ""), Console("disconnected", 0, 0, 0, "")>>
                  \o (IF pend = "none" THEN <<>> ELSE <<Raise(pend, 0)>>),
          pc |-> IF pend = "none" THEN "exited" ELSE "crashed"]
    ELSE [evs |-> <<Call("disconnect", 0, 0, 0, ""), Raise("Exception", 0)>>,
          pc |-> "crashed"]

\* A cleanup that ends every exception, as a bare except around the loop would.
main_finally_swallows(ok, pend) ==
    [evs |-> <<Call("disconnect", 0, 0, 0, "")>>
             \o (IF ok THEN <<>> ELSE <<Ev("swallowed", "Exception", 0, 0, 0, "")>>)
             \o <<Console("disconnected", 0, 0, 0, "")>>,
     pc |-> "exited"]

\* main, lines 192-197: the finally block; `ok` is whether disconnect returns,
\* `pend` the exception the block was entered with ("none" after the except).
main_finally(ok, pend) ==
    [evs |-> <<Call("disconnect", 0, 0, 0, "")>>
             \o (IF ok THEN <<>> ELSE <<Ev("swallowed", "Exception", 0, 0, 0, "")>>)
             \o <<Console("disconnected", 0, 0, 0, "")>>
             \o (IF pend = "none" THEN <<>> ELSE <<Raise(pend, 0)>>),
     pc |-> IF pend = "none" THEN "exited" ELSE "crashed"]

-----------------------------------------------------------------------------
(* The state machine. *)

Init ==
    /\ pc = "start"
    /\ model = "none"
    /\ userdata = NoClient
    /\ conn = "Disconnected"
    /\ inbox = <<>>
    /\ pending = "none"
    /\ reconnects = 0
    /\ trace = <<>>
    /\ loop = NoLoop
    /\ gen = NoGen

\* main, lines 171-173.
LoadModel ==
    /\ pc = "start"
    /\ \E loaded \in Artifacts \cup {"none"} :
         /\ trace' = trace \o <<Console("banner", 0, 0, 0, "")>> \o load_model(loaded)
         /\ model' = loaded
         /\ pc' = IF Escapes(load_model(loaded)) THEN "crashed" ELSE "loaded"
    /\ UNCHANGED <<loop, gen, userdata, conn, inbox, pending, reconnects>>

\* main, line 175.  tls_set raises when a certificate file cannot be read.
CreateClient ==
    /\ pc = "loaded"
    /\ \E ok \in BOOLEAN :
         IF ok
         THEN /\ userdata' = create_mqtt_client(model)
              /\ trace' = Append(trace, Call("mqtt.Client", 0, 0, 0, ""))
              /\ pc' = "created"
         ELSE /\ userdata' = userdata
              /\ trace' = trace \o <<Call("mqtt.Client", 0, 0, 0, ""),
                                     Raise("Exception", 0)>>
              /\ pc' = "crashed"
    /\ UNCHANGED <<loop, gen, model, conn, inbox, pending, reconnects>>

\* main, lines 177-182.
Connect ==
    /\ pc = "created"
    /\ \E ok \in BOOLEAN :
         /\ trace' = trace \o main_connect(ok).evs
         /\ pc' = main_connect(ok).pc
         /\ conn' = main_connect(ok).conn
    /\ UNCHANGED <<loop, gen, model, userdata, inbox, pending, reconnects>>

\* main, lines 184-189: the two announcements, then loop_forever is entered.
EnterLoop ==
    /\ pc = "connected"
    /\ trace' = trace \o <<Console("subscribed_banner", 0, 0, 0, TOPIC),
                           Call("loop_forever", 0, 0, 0, "")>>
    /\ pc' = "loop"
    /\ UNCHANGED <<loop, gen, model, userdata, conn, inbox, pending, reconnects>>

\* Inside loop_forever: the broker's CONNACK arrives and on_connect runs.
\* A refused connection (rc # 0) makes the library close the socket.
ConnAck ==
    /\ pc = "loop"
    /\ conn = "Connecting"
    /\ \E rc \in {0, 5} :
         /\ trace' = trace \o <<Lib("connack", 0, rc)>> \o on_connect(rc)
         /\ conn' = IF rc # 0 THEN "Lost"
                    ELSE IF \E i \in DOMAIN on_connect(rc) :
                                on_connect(rc)[i].kind = "subscribe"
                         THEN "Subscribed" ELSE "Connected"
    /\ UNCHANGED <<loop, gen, pc, model, userdata, inbox, pending, reconnects>>

\* Inside loop_forever: the network connection drops.
ConnectionLost ==
    /\ pc = "loop"
    /\ conn \in {"Connecting", "Connected", "Subscribed"}
    /\ conn' = "Lost"
    /\ trace' = Append(trace, Lib("lost", 0, 0))
    /\ UNCHANGED <<loop, gen, pc, model, userdata, inbox, pending, reconnects>>

\* Inside loop_forever: after a lost or refused connection the library
\* reconnects on its own; a failed attempt is caught and retried.
Reconnect ==
    /\ pc = "loop"
    /\ conn = "Lost"
    /\ reconnects < MaxReconnects
    /\ reconnects' = reconnects + 1
    /\ \E ok \in BOOLEAN :
         /\ conn' = IF ok THEN "Connecting" ELSE "Lost"
         /\ trace' = Append(trace, Lib("reconnect", 0, IF ok THEN 1 ELSE 0))
    /\ UNCHANGED <<loop, gen, pc, model, userdata, inbox, pending>>

\* Inside loop_forever: a message on the subscribed topic is dispatched to
\* on_message; an exception leaving the callback leaves loop_forever too.
Message ==
    /\ pc = "loop"
    /\ conn = "Subscribed"
    /\ Len(inbox) < MaxMsgs
    /\ \E in \in Inputs :
         LET id  == Len(inbox) + 1
             evs == on_message(userdata, id, in[1], in[2])
         IN  /\ inbox' = Append(inbox, [payload |-> in[1], outcome |-> in[2]])
             /\ trace' = trace \o <<Lib("message", id, 0)>> \o evs
             /\ pc' = IF Escapes(evs) THEN "finally" ELSE pc
             /\ pending' = IF Escapes(evs) THEN evs[Len(evs)].kind ELSE pending
    /\ UNCHANGED <<loop, gen, model, userdata, conn, reconnects>>

\* main, lines 190-191: Ctrl+C while blocked in loop_forever, taken while the
\* loop waits for the network, between callbacks.
Interrupt ==
    /\ pc = "loop"
    /\ trace' = trace \o <<Raise("KeyboardInterrupt", 0),
                           Console("interrupted", 0, 0, 0, "")>>
    /\ pc' = "finally"
    /\ UNCHANGED <<loop, gen, model, userdata, conn, inbox, pending, reconnects>>

\* main, lines 192-197; the process then ends, which closes the socket.
Finally ==
    /\ pc = "finally"
    /\ \E ok \in BOOLEAN :
         /\ trace' = trace \o main_finally(ok, pending).evs
         /\ pc' = main_finally(ok, pending).pc
    /\ conn' = "Disconnected"
    /\ UNCHANGED <<loop, gen, model, userdata, inbox, pending, reconnects>>

Next ==
    \/ LoadModel
    \/ CreateClient
    \/ Connect
    \/ EnterLoop
    \/ ConnAck
    \/ ConnectionLost
    \/ Reconnect
    \/ Message
    \/ Interrupt
    \/ Finally

Spec == Init /\ [][Next]_vars

TypeOK ==
    /\ pc \in PcValues
    /\ model \in Artifacts \cup {"none"}
    /\ conn \in ConnValues
    /\ pending \in {"none", "OverflowError", "ValueError", "TypeError"}
    /\ reconnects \in 0..MaxReconnects
    /\ Len(inbox) <= MaxMsgs

-----------------------------------------------------------------------------
(* Reading the trace. *)

Where(ch, kind) == {i \in DOMAIN trace : trace[i].ch = ch /\ trace[i].kind = kind}

Count(ch, kind) == Cardinality(Where(ch, kind))

IsAlert(e) == e.ch = "print" /\ e.kind \in {"alert_anomaly", "alert_normal"}

\* What on_message did for message id: its events, in order.
EventsOf(id) == SelectSeq(trace, LAMBDA e : e.msg = id /\ e.ch # "lib")

AlertsOf(id) == SelectSeq(EventsOf(id), IsAlert)

QueriesOf(id) == SelectSeq(EventsOf(id), LAMBDA e : e.ch = "call" /\ e.kind = "predict")

RaisedIn(id) == \E i \in DOMAIN trace : trace[i].ch = "raise" /\ trace[i].msg = id

\* float() accepts the member: a JSON number a float can hold, or numeric text.
Convertible(x) == x.ty \in {"number", "numstr"}

WellFormed(p) ==
    /\ p.enc = "utf8" /\ p.text = "json" /\ p.top = "object"
    /\ Convertible(p.temperature) /\ Convertible(p.vibration)

\* Not UTF-8, not JSON, not an object, or a member missing or not convertible
\* to a float (a numeral beyond the float range included).
Malformed(p) == ~WellFormed(p)

-----------------------------------------------------------------------------
(* C1: every malformed message is dropped: on_message prints no alert line, *)
(* never calls the classifier, and no exception leaves the handler.         *)
C1_MalformedDropped ==
    \A id \in DOMAIN inbox :
        Malformed(inbox[id].payload) =>
            /\ AlertsOf(id) = <<>>
            /\ QueriesOf(id) = <<>>
            /\ ~RaisedIn(id)

(* C2: for a payload that is an object with numeric temperature and         *)
(* vibration, the classifier is called exactly once, with the row           *)
(* (temperature, vibration) in that order; a returned 1 gives the anomaly   *)
(* alert and a returned 0 the normal alert, each carrying the message's own *)
(* two values to two decimals.                                              *)
C2_ClassifiedAndAlerted ==
    \A id \in DOMAIN inbox :
        LET p == inbox[id].payload
            o == inbox[id].outcome
            style == IF o = Label(10) THEN "alert_anomaly" ELSE "alert_normal"
        IN  WellFormed(p) =>
              /\ QueriesOf(id) =
                   <<Call("predict", id, p.temperature.n, p.vibration.n, model)>>
              /\ o \in {Label(0), Label(10)} =>
                   AlertsOf(id) = <<Console(style, id, Fmt2(p.temperature.n),
                                          Fmt2(p.vibration.n), "")>>
              /\ (p = P_anomaly /\ o = Label(10)) =>
                   AlertsOf(id) = <<Console("alert_anomaly", id, 9500, 420, "")>>
              /\ (p = P_normal /\ o = Label(0)) =>
                   AlertsOf(id) = <<Console("alert_normal", id, 6800, 180, "")>>

C2_Witness ==
    /\ Len(inbox) = 2
    /\ inbox[1] = [payload |-> P_anomaly, outcome |-> Label(10)]
    /\ inbox[2] = [payload |-> P_normal, outcome |-> Label(0)]
    /\ Len(AlertsOf(2)) = 1

(* C3: when predict raises, or returns a value that is no label, on_message *)
(* logs the failure, prints no alert, and no exception leaves the handler.  *)
C3_ClassifierFailureDropped ==
    \A id \in DOMAIN inbox :
        (WellFormed(inbox[id].payload) /\ inbox[id].outcome.k # "number") =>
            /\ AlertsOf(id) = <<>>
            /\ \E i \in DOMAIN EventsOf(id) : EventsOf(id)[i].kind = "predict_failed"
            /\ ~RaisedIn(id)

(* C4: the alert lines on the console are, in order and one each, exactly   *)
(* the messages that were decoded, parsed and classified successfully; a    *)
(* dropped message has no alert line.                                       *)
Succeeds(m) == WellFormed(m.payload) /\ m.outcome.k = "number"

AlertIds ==
    LET alerts == SelectSeq(trace, IsAlert)
    IN  [i \in DOMAIN alerts |-> alerts[i].msg]

SuccessIds ==
    SelectSeq([i \in DOMAIN inbox |-> i], LAMBDA i : Succeeds(inbox[i]))

C4_OneAlertPerSuccess == AlertIds = SuccessIds

C4_Witness ==
    /\ Len(inbox) = 2
    /\ Malformed(inbox[1].payload)
    /\ AlertIds = <<2>>

ConnectFailed == Count("print", "connect_failed") > 0

C6_SingleConnectAttempt ==
    /\ Count("call", "connect") <= 1
    /\ ConnectFailed =>
          /\ pc = "exited"
          /\ Count("call", "connect") = 1
          /\ Count("call", "loop_forever") = 0
          /\ Count("call", "subscribe") = 0
          /\ Count("lib", "reconnect") = 0
          /\ inbox = <<>>
          /\ trace[Len(trace)] = Console("connect_failed", 0, 0, 0, "")

C6_Witness == ConnectFailed /\ pc = "exited"

(* C7, as stated: the session is linear with no retry edges: Connecting is  *)
(* entered at most once, on_connect fires and subscribe is issued at most   *)
(* once, and after a lost connection nothing connects or subscribes again.  *)
C7_LinearNoRetry ==
    /\ Count("call", "connect") + Count("lib", "reconnect") <= 1
    /\ Count("lib", "connack") <= 1
    /\ Count("call", "subscribe") <= 1
    /\ \A i \in Where("lib", "lost") :
          \A j \in DOMAIN trace :
              j > i => trace[j].kind \notin {"reconnect", "connack", "subscribe"}

(* C7, amended: main itself calls connect at most once and has no retry     *)
(* edge; inside loop_forever the library re-enters Connecting after a lost  *)
(* or refused connection, and on_connect subscribes once per accepted       *)
(* CONNACK; the session only moves along the edges below, and once the      *)
(* finally block has run it is Disconnected for good.                       *)
C7_Edge ==
    conn' # conn =>
        \/ conn = "Disconnected" /\ conn' = "Connecting" /\ pc = "created"
        \/ conn = "Connecting" /\ conn' = "Subscribed" /\ pc = "loop" /\ pc' = "loop"
        \/ conn \in {"Connecting", "Subscribed"} /\ conn' = "Lost" /\ pc = "loop"
        \/ conn = "Lost" /\ conn' = "Connecting" /\ pc = "loop" /\ pc' = "loop"
        \/ conn' = "Disconnected" /\ pc = "finally"

C7_Sessions ==
    /\ Count("call", "connect") <= 1
    /\ Count("call", "subscribe")
         = Cardinality({i \in Where("lib", "connack") : trace[i].v = 0})
    /\ Count("lib", "connack") <= 1 + Count("lib", "reconnect")
    /\ pc \in {"exited", "crashed"} => conn = "Disconnected"
    /\ pc \in {"start", "loaded", "created"} => conn = "Disconnected"

\* C7, amended: every session step is one of the edges of C7_Edge, and
\* C7_Sessions holds throughout.
C7_SessionStateMachine == [][C7_Edge]_vars /\ []C7_Sessions

C7_Witness ==
    /\ Count("call", "subscribe") = 2
    /\ Count("lib", "lost") = 1
    /\ pc = "exited"

(* C8: once main is blocked in loop_forever, a user interrupt always leads  *)
(* to one disconnect attempt whose failure is swallowed, then the final     *)
(* "Disconnected" line, then a normal exit; no message is handled after     *)
(* the interrupt.                                                           *)
Interrupted == Count("raise", "KeyboardInterrupt") > 0

C8_AfterInterrupt ==
    \A i \in Where("raise", "KeyboardInterrupt") :
        /\ trace[i + 1] = Console("interrupted", 0, 0, 0, "")
        /\ \A j \in DOMAIN trace : j > i => trace[j].msg = 0 /\ trace[j].ch # "lib"
        /\ pc \in {"finally", "exited"}
        /\ pc = "finally" => Len(trace) = i + 1 /\ Count("call", "disconnect") = 0
        /\ pc = "exited" =>
              /\ Where("call", "disconnect") = {i + 2}
              /\ Where("print", "disconnected") = {Len(trace)}
              /\ Where("raise", "KeyboardInterrupt") = {i}
              /\ \A j \in DOMAIN trace : j > i => trace[j].ch # "raise"

\* C8: C8_AfterInterrupt always holds, and after the interrupt the finally
\* block is the one step main can take, can always be taken, and ends in the
\* normal exit.
C8_InterruptShutsDown ==
    /\ []C8_AfterInterrupt
    /\ []((Interrupted /\ pc = "finally") => ENABLED Finally)
    /\ [][(Interrupted /\ pc = "finally") => pc' = "exited"]_vars

C8_Witness ==
    /\ Interrupted
    /\ pc = "exited"
    /\ Count("swallowed", "Exception") = 1
    /\ Len(inbox) > 0

(* C9, as stated: the classifier's output is rounded to the nearest integer *)
(* and the alert is the anomaly alert exactly when the rounded value is 1   *)
(* (0.6 anomalous, 1.9 not).                                                *)
Nearest(n) == IF n >= 0 THEN (n + 5) \div 10 ELSE -((5 - n) \div 10)

C9_RoundToNearest ==
    \A id \in DOMAIN inbox :
        (WellFormed(inbox[id].payload) /\ inbox[id].outcome.k = "number") =>
            /\ Len(AlertsOf(id)) = 1
            /\ AlertsOf(id)[1].kind = "alert_anomaly"
                 <=> Nearest(inbox[id].outcome.n) = 1

(* C9, amended: the output is truncated toward zero and the alert is the    *)
(* anomaly alert exactly when the truncated value is 1, that is when the    *)
(* output x has 1 <= x < 2 (1.9 anomalous, 0.6 not); every other number     *)
(* gives the normal alert.                                                  *)
C9_Truncates ==
    \A id \in DOMAIN inbox :
        (WellFormed(inbox[id].payload) /\ inbox[id].outcome.k = "number") =>
            /\ Len(AlertsOf(id)) = 1
            /\ AlertsOf(id)[1].kind =
                 IF inbox[id].outcome.n \in 10..19 THEN "alert_anomaly"
                                                   ELSE "alert_normal"

C9_Witness ==
    \E id \in DOMAIN inbox :
        /\ inbox[id].outcome = Label(19)
        /\ Len(AlertsOf(id)) = 1
        /\ AlertsOf(id)[1].kind = "alert_anomaly"

(* C10: the classifier is loaded once, before the client is created and     *)
(* before connect is called, and the object loaded is the one every         *)
(* message's predict call goes to; if the load fails the program dies       *)
(* there: no client, no connect, no message.                                *)
LoadFailed ==
    \E i \in Where("call", "joblib.load") :
        i < Len(trace) /\ trace[i + 1].ch = "raise"

C10_LoadOnceQueryMany ==
    /\ LET loads    == Where("call", "joblib.load")
           clients  == Where("call", "mqtt.Client")
           connects == Where("call", "connect")
       IN  /\ Cardinality(loads) <= 1
           /\ \A c \in clients \cup connects :
                 \E l \in loads :
                     l < c /\ trace[l + 1] = Console("model_loaded", 0, 0, 0, "")
           /\ \A c \in connects : \E m \in clients : m < c
    /\ pc \in {"created", "connected", "loop", "finally"} =>
          userdata.model = model /\ model \in Artifacts
    /\ \A id \in DOMAIN inbox :
          WellFormed(inbox[id].payload) =>
              /\ Len(QueriesOf(id)) = 1
              /\ QueriesOf(id)[1].s = model
    /\ LoadFailed =>
          /\ pc = "crashed"
          /\ userdata = NoClient
          /\ Count("call", "mqtt.Client") = 0
          /\ Count("call", "connect") = 0
          /\ inbox = <<>>

C10_Witness ==
    /\ model = "rf_b"
    /\ Count("call", "predict") = 2
    /\ Count("call", "joblib.load") = 1

(* C11: message handling is stateless: what on_message does for a message  *)
(* depends on that message's payload and the classifier's answer only, not  *)
(* on the messages before it, and on_message leaves the session state (the  *)
(* userdata with the classifier reference, the connection, the              *)
(* subscription) as it found it, whether it alerts or drops.                *)

\* What on_message did for message id, without the message's number.
Handling(id) == [k \in DOMAIN EventsOf(id) |-> [EventsOf(id)[k] EXCEPT !.msg = 0]]

\* The one outcome each input has, whatever came before it.
OutcomeOf(m) ==
    LET p == m.payload
        o == m.outcome
    IN  IF p.enc # "utf8" \/ p.text # "json" THEN "parse_failed"
        ELSE IF p.top # "object" THEN "invalid_fields"
        ELSE IF p.temperature.ty \in {"absent", "str", "null"} THEN "invalid_fields"
        ELSE IF p.temperature.ty = "bigint" THEN "OverflowError"
        ELSE IF p.vibration.ty \in {"absent", "str", "null"} THEN "invalid_fields"
        ELSE IF p.vibration.ty = "bigint" THEN "OverflowError"
        ELSE IF o.k = "raises" THEN "predict_failed"
        ELSE IF o.k = "nan" THEN "ValueError"
        ELSE IF o.n \in 10..19 THEN "alert_anomaly"
        ELSE "alert_normal"

C11_SameOutcome ==
    /\ \A i \in DOMAIN inbox :
          /\ Len(Handling(i)) > 0
          /\ Handling(i)[Len(Handling(i))].kind = OutcomeOf(inbox[i])
    /\ \A i, j \in DOMAIN inbox : inbox[i] = inbox[j] => Handling(i) = Handling(j)

C11_SessionUntouched ==
    inbox' # inbox =>
        /\ userdata' = userdata
        /\ model' = model
        /\ conn' = conn
        /\ reconnects' = reconnects

\* C11: both parts, in every step and every state.
C11_Stateless == []C11_SameOutcome /\ [][C11_SessionUntouched]_vars

C11_Witness ==
    /\ Len(inbox) = 2
    /\ inbox[1] = inbox[2]
    /\ inbox[1].payload = P_anomaly
    /\ Len(AlertsOf(2)) = 1
    /\ conn = "Subscribed"

(* C16: the cleanup belongs to the network loop: once loop_forever has been *)
(* entered and is left, by the interrupt or by any other exception,         *)
(* disconnect is attempted exactly once and the "Disconnected" line is      *)
(* printed, and an exception other than the interrupt still propagates      *)
(* afterwards; when the connect at startup failed, disconnect is never      *)
(* called and the line is never printed.                                    *)
LoopEntered == Count("call", "loop_forever") > 0

C16_CleanupFollowsLoop ==
    /\ (LoopEntered /\ pc \in {"exited", "crashed"}) =>
          /\ Count("call", "disconnect") = 1
          /\ Count("print", "disconnected") = 1
          /\ \A d \in Where("call", "disconnect") :
                \A l \in Where("print", "disconnected") : d < l
          /\ pending = "none" =>
                /\ pc = "exited"
                /\ Interrupted
                /\ trace[Len(trace)] = Console("disconnected", 0, 0, 0, "")
          /\ pending # "none" =>
                /\ pc = "crashed"
                /\ ~Interrupted
                /\ trace[Len(trace)] = Raise(pending, 0)
                /\ trace[Len(trace) - 1] = Console("disconnected", 0, 0, 0, "")
    /\ (LoopEntered /\ pc \in {"loop", "finally"}) => Count("call", "disconnect") = 0
    /\ ~LoopEntered =>
          /\ Count("call", "disconnect") = 0
          /\ Count("print", "disconnected") = 0
    /\ ConnectFailed => ~LoopEntered /\ pc = "exited"

C16_Witness ==
    /\ pc = "crashed"
    /\ pending = "OverflowError"
    /\ Count("call", "disconnect") = 1
    /\ Count("swallowed", "Exception") = 1

(* C18: the console line "Subscribed to topic ..." is printed only after a  *)
(* CONNACK with result code 0 has been received and the subscribe has been  *)
(* issued; the client never reports being subscribed while no subscribe     *)
(* has been issued.                                                         *)
C18_BannerAfterSubscribe ==
    \A b \in Where("print", "subscribed_banner") :
        \E a \in Where("lib", "connack") :
            /\ trace[a].v = 0
            /\ a < b
            /\ \E c \in Where("call", "subscribe") : a < c /\ c < b

-----------------------------------------------------------------------------
(* The calling thread inside loop_forever(), frame by frame.                *)
(*                                                                          *)
(* main() calls client.loop_forever() (line 189) on its own thread and      *)
(* on_message is registered as a plain callback (line 165): the loop reads  *)
(* one message from the transport and calls on_message on the same thread,  *)
(* so the callback's frame sits on top of the loop's frame until it         *)
(* returns.  loop.stack is that thread's call stack, loop.transport the     *)
(* messages the broker transport holds (opaque to the client), loop.log     *)
(* the begin and end of every on_message invocation.  The client has no     *)
(* other place where a message could wait.                                  *)

Frame(fn, msg) == [fn |-> fn, msg |-> msg]

Top(stack) == stack[Len(stack)]

Pop(stack) == SubSeq(stack, 1, Len(stack) - 1)

\* Messages the loop specification delivers: one alerted, one dropped, one
\* whose handling raises.
LoopInputs == {<<P_anomaly, Label(10)>>, <<P_no_temp, Label(0)>>, <<P_anomaly, NaN>>}

\* Callbacks handed to other threads: the loop dispatches whenever it runs.
CanDispatchThreaded(l) ==
    \E k \in DOMAIN l.stack : l.stack[k].fn = "loop_forever"

\* loop_forever dispatches from its own frame: not while a callback runs.
CanDispatch(l) ==
    Len(l.stack) > 0 /\ Top(l.stack).fn = "loop_forever"

LoopInit ==
    /\ pc = "loop"
    /\ model = "rf_a"
    /\ userdata = create_mqtt_client("rf_a")
    /\ conn = "Subscribed"
    /\ inbox = <<>>
    /\ pending = "none"
    /\ reconnects = 0
    /\ trace = <<>>
    /\ loop = [stack |-> <<Frame("main", 0), Frame("loop_forever", 0)>>,
               transport |-> 0, arrived |-> 0, log |-> <<>>]
    /\ gen = NoGen

\* The broker sends a message; it waits in the transport.
LoopArrive ==
    /\ Len(loop.stack) > 1
    /\ loop.arrived < MaxLoopMsgs
    /\ loop' = [loop EXCEPT !.transport = @ + 1, !.arrived = @ + 1]
    /\ UNCHANGED <<pc, model, userdata, conn, inbox, pending, reconnects, trace, gen>>

\* loop_forever takes one message from the transport and calls on_message.
LoopDispatch ==
    /\ CanDispatch(loop)
    /\ loop.transport > 0
    /\ \E in \in LoopInputs :
         LET id == Len(inbox) + 1
         IN  /\ inbox' = Append(inbox, [payload |-> in[1], outcome |-> in[2]])
             /\ trace' = Append(trace, Lib("message", id, 0))
             /\ loop' = [loop EXCEPT !.transport = @ - 1,
                                     !.stack = Append(@, Frame("on_message", id)),
                                     !.log = Append(@, Frame("begin", id))]
    /\ UNCHANGED <<pc, model, userdata, conn, pending, reconnects, gen>>

\* The on_message on top of the stack runs to its end: it returns to the
\* loop, or its exception unwinds the loop as well.
LoopReturn ==
    /\ Len(loop.stack) > 0
    /\ Top(loop.stack).fn = "on_message"
    /\ LET id  == Top(loop.stack).msg
           evs == on_message(userdata, id, inbox[id].payload, inbox[id].outcome)
       IN  /\ trace' = trace \o evs
           /\ loop' = [loop EXCEPT !.stack = IF Escapes(evs) THEN <<Frame("main", 0)>>
                                             ELSE Pop(@),
                                   !.log = Append(@, Frame("end", id))]
           /\ pc' = IF Escapes(evs) THEN "finally" ELSE pc
           /\ pending' = IF Escapes(evs) THEN evs[Len(evs)].kind ELSE pending
    /\ UNCHANGED <<model, userdata, conn, inbox, reconnects, gen>>

LoopNext ==
    \/ LoopArrive
    \/ LoopDispatch
    \/ LoopReturn

LoopSpec == LoopInit /\ [][LoopNext]_vars

(* C12: callbacks run synchronously inside the one blocking loop: at most   *)
(* one on_message invocation is in progress at any time, the invocation     *)
(* for a message ends before the one for the next message begins, and the   *)
(* client holds no queue of pending messages: a message that has arrived    *)
(* is still in the transport or has been handed to on_message.              *)
InProgress == {k \in DOMAIN loop.stack : loop.stack[k].fn = "on_message"}

C12_OneAtATime ==
    /\ Cardinality(InProgress) <= 1
    /\ \A k \in DOMAIN loop.log :
          loop.log[k] = IF k % 2 = 1 THEN Frame("begin", (k + 1) \div 2)
                                     ELSE Frame("end", k \div 2)
    /\ Len(loop.log) = 2 * Len(inbox) - Cardinality(InProgress)
    /\ loop.arrived = loop.transport + Len(inbox)

C12_Witness ==
    /\ Len(loop.log) = 3
    /\ Cardinality(InProgress) = 1
    /\ loop.transport = 1
    /\ Len(SelectSeq(trace, IsAlert)) = 1

-----------------------------------------------------------------------------
(* generate_historical_data.py: main(), statement by statement.             *)
(*                                                                          *)
(* Times are whole seconds since the epoch, measurements thousandths of a   *)
(* unit.  Arrays are functions on 0 .. n_rows - 1 as in numpy.  The row     *)
(* count of the source, ConfiguredRows, is scaled down to ModelRows so the  *)
(* arrays can be enumerated; the arithmetic on it is also evaluated at the  *)
(* source's own value.                                                      *)

ConfiguredRows == 10000
ANOMALY_PERCENT == 5
MINUTE == 60
MACHINE_ID == "NC_Machine_AC"
NORMAL_TEMPERATURE_LOC == 68000
NORMAL_TEMPERATURE_SCALE == 3000
NORMAL_VIBRATION_LOC == 1800
NORMAL_VIBRATION_SCALE == 300
ANOMALY_TEMPERATURE_LOW == 80000
ANOMALY_TEMPERATURE_HIGH == 100000
ANOMALY_VIBRATION_LOW == 3000
ANOMALY_VIBRATION_HIGH == 5000
CLIP_MIN == 0

n_rows == ModelRows

Rows(n) == 0 .. (n - 1)

\* datetime.now(timezone.utc): one instant on a minute, one inside a minute.
Nows == {600120, 600059}

\* What np.empty may leave in a fresh array.
Garbage == {0, -7000}

\* State of the random generator before a draw.
Seeds == 0 .. 3

\* .replace(second=0, microsecond=0)
TruncMinute(t) == t - (t % MINUTE)

\* A window of n minutes that begins where it should end one minute later.
start_ts_off_by_one(end, n) == end - MINUTE * n

\* end_ts - timedelta(minutes=n_rows - 1)
start_ts_of(end, n) == end - MINUTE * (n - 1)

\* pd.date_range(start=..., periods=..., freq="1min")
date_range(start, periods) == [i \in Rows(periods) |-> start + MINUTE * i]

\* Python 3 round() of n * percent / 100: to nearest, ties to even.
PyRound(num, den) ==
    LET q == num \div den
        r == num % den
    IN  IF 2 * r > den THEN q + 1
        ELSE IF 2 * r < den THEN q
        ELSE IF q % 2 = 0 THEN q ELSE q + 1

\* int(round(n_rows * 0.05))
AnomalyCount(n) == PyRound(n * ANOMALY_PERCENT, 100)

\* Draws that may repeat an index.
rng_choice_with_replacement(n, size) == [1 .. size -> Rows(n)]

\* rng.choice(n, size=size, replace=False): every ordered draw of distinct
\* indices.
rng_choice(n, size) ==
    {c \in [1 .. size -> Rows(n)] :
        \A j, k \in 1 .. size : j # k => c[j] # c[k]}

\* Standard normal deviates in thousandths, far tails included.
ZScores == <<0, -1500, 2000, 4200, -6500>>

\* rng.normal(loc, scale, size)
rng_normal(loc, scale, seed, size) ==
    [k \in 1 .. size |->
        loc + (scale * ZScores[((seed + k) % Len(ZScores)) + 1]) \div 1000]

\* Points of [0, 1) in thousandths.
UnitDraws == <<0, 999, 500, 250>>

\* A uniform draw over twice the requested width.
rng_uniform_unbounded(low, high, seed, size) ==
    [k \in 1 .. size |->
        low + (2 * (high - low) * UnitDraws[((seed + k) % Len(UnitDraws)) + 1]) \div 1000]

\* rng.uniform(low, high, size): values in [low, high)
rng_uniform(low, high, seed, size) ==
    [k \in 1 .. size |->
        low + ((high - low) * UnitDraws[((seed + k) % Len(UnitDraws)) + 1]) \div 1000]

\* A mask that selects every row.
normal_mask_all(is_anomaly) == [i \in DOMAIN is_anomaly |-> TRUE]

\* is_anomaly == 0
normal_mask_of(is_anomaly) == [i \in DOMAIN is_anomaly |-> is_anomaly[i] = 0]

\* int(mask.sum())
MaskSum(mask) == Cardinality({i \in DOMAIN mask : mask[i]})

\* arr[mask] = values: the values go to the selected rows in row order.
MaskAssign(arr, mask, values) ==
    [i \in DOMAIN arr |->
        IF mask[i] THEN values[Cardinality({j \in 0 .. i : mask[j]})]
        ELSE arr[i]]

\* Positions of idx that name row i.
Hits(idx, i) == {k \in DOMAIN idx : idx[k] = i}

\* arr[idx] = values: values[k] goes to row idx[k]; the last write stays.
IndexAssign(arr, idx, values) ==
    [i \in DOMAIN arr |->
        IF Hits(idx, i) = {} THEN arr[i]
        ELSE values[CHOOSE k \in Hits(idx, i) : \A j \in Hits(idx, i) : j <= k]]

\* np.clip(arr, a_min=0.0, a_max=None)
Clip(arr) == [i \in DOMAIN arr |-> IF arr[i] < CLIP_MIN THEN CLIP_MIN ELSE arr[i]]

\* How often each sampling step has written a row.
NoWrites(n) == [i \in Rows(n) |-> [normal |-> 0, anomaly |-> 0]]

WroteMask(wr, mask) ==
    [i \in DOMAIN wr |-> IF mask[i] THEN [wr[i] EXCEPT !.normal = @ + 1] ELSE wr[i]]

WroteIndex(wr, idx) ==
    [i \in DOMAIN wr |-> [wr[i] EXCEPT !.anomaly = @ + Cardinality(Hits(idx, i))]]

\* pd.DataFrame({...}): one record per row.
DataFrame(timestamps, temperature, vibration, is_anomaly) ==
    [i \in DOMAIN timestamps |->
        [timestamp |-> timestamps[i], machineId |-> MACHINE_ID,
         temperature |-> temperature[i], vibration |-> vibration[i],
         is_anomaly |-> is_anomaly[i]]]

GenStart ==
    [pc |-> "start", now |-> 0, end_ts |-> 0, start_ts |-> 0, timestamps |-> <<>>,
     temperature |-> <<>>, vibration |-> <<>>, is_anomaly |-> <<>>,
     anomaly_count |-> 0, anomaly_idx |-> <<>>, normal_mask |-> <<>>,
     normal_count |-> 0, wrT |-> <<>>, wrV |-> <<>>, df |-> <<>>]

GenInit ==
    /\ pc = "start"
    /\ model = "none"
    /\ userdata = NoClient
    /\ conn = "Disconnected"
    /\ inbox = <<>>
    /\ pending = "none"
    /\ reconnects = 0
    /\ trace = <<>>
    /\ loop = NoLoop
    /\ gen = GenStart

GenKeeps == UNCHANGED <<pc, model, userdata, conn, inbox, pending, reconnects, loop>>

\* Lines 30-40: the banner and the timestamps.
GenTimestamps ==
    /\ gen.pc = "start"
    /\ \E now \in Nows :
         LET end_ts == TruncMinute(now)
             start_ts == start_ts_of(end_ts, n_rows)
         IN  gen' = [gen EXCEPT !.pc = "stamped", !.now = now,
                                !.end_ts = end_ts, !.start_ts = start_ts,
                                !.timestamps = date_range(start_ts, n_rows)]
    /\ trace' = Append(trace, Console("starting", 0, 0, 0, ""))
    /\ GenKeeps

\* Lines 43-51: the arrays and the labels.
GenLabel ==
    /\ gen.pc = "stamped"
    /\ \E g \in Garbage :
       \E anomaly_idx \in rng_choice(n_rows, AnomalyCount(n_rows)) :
         gen' = [gen EXCEPT !.pc = "labelled",
                            !.temperature = [i \in Rows(n_rows) |-> g],
                            !.vibration = [i \in Rows(n_rows) |-> g],
                            !.wrT = NoWrites(n_rows),
                            !.wrV = NoWrites(n_rows),
                            !.anomaly_count = AnomalyCount(n_rows),
                            !.anomaly_idx = anomaly_idx,
                            !.is_anomaly = IndexAssign([i \in Rows(n_rows) |-> 0],
                                                       anomaly_idx,
                                                       [k \in DOMAIN anomaly_idx |-> 1])]
    /\ UNCHANGED trace
    /\ GenKeeps

\* Lines 54-57: the normal rows.
GenNormals ==
    /\ gen.pc = "labelled"
    /\ \E seed \in Seeds :
         LET normal_mask == normal_mask_of(gen.is_anomaly)
             normal_count == MaskSum(normal_mask)
         IN  gen' = [gen EXCEPT !.pc = "normals",
                                !.normal_mask = normal_mask,
                                !.normal_count = normal_count,
                                !.temperature = MaskAssign(@, normal_mask,
                                    rng_normal(NORMAL_TEMPERATURE_LOC, NORMAL_TEMPERATURE_SCALE,
                                               seed, normal_count)),
                                !.vibration = MaskAssign(@, normal_mask,
                                    rng_normal(NORMAL_VIBRATION_LOC, NORMAL_VIBRATION_SCALE,
                                               seed + 1, normal_count)),
                                !.wrT = WroteMask(@, normal_mask),
                                !.wrV = WroteMask(@, normal_mask)]
    /\ UNCHANGED trace
    /\ GenKeeps

\* Lines 60-61: the anomalous rows.
GenAnomalies ==
    /\ gen.pc = "normals"
    /\ \E seed \in Seeds :
         gen' = [gen EXCEPT !.pc = "anomalies",
                            !.temperature = IndexAssign(@, gen.anomaly_idx,
                                rng_uniform(ANOMALY_TEMPERATURE_LOW, ANOMALY_TEMPERATURE_HIGH,
                                            seed, gen.anomaly_count)),
                            !.vibration = IndexAssign(@, gen.anomaly_idx,
                                rng_uniform(ANOMALY_VIBRATION_LOW, ANOMALY_VIBRATION_HIGH,
                                            seed + 1, gen.anomaly_count)),
                            !.wrT = WroteIndex(@, gen.anomaly_idx),
                            !.wrV = WroteIndex(@, gen.anomaly_idx)]
    /\ UNCHANGED trace
    /\ GenKeeps

\* Line 64: the clamp.
GenClip ==
    /\ gen.pc = "anomalies"
    /\ gen' = [gen EXCEPT !.pc = "clipped", !.vibration = Clip(@)]
    /\ UNCHANGED trace
    /\ GenKeeps

\* Lines 66-83: the frame, the file and the report.
GenSave ==
    /\ gen.pc = "clipped"
    /\ LET df == DataFrame(gen.timestamps, gen.temperature, gen.vibration, gen.is_anomaly)
       IN  /\ gen' = [gen EXCEPT !.pc = "saved", !.df = df]
           /\ trace' = Append(trace,
                              Console("finished", 0, 0, Cardinality(DOMAIN df), ""))
    /\ GenKeeps

GenNext ==
    \/ GenTimestamps
    \/ GenLabel
    \/ GenNormals
    \/ GenAnomalies
    \/ GenClip
    \/ GenSave

GenSpec == GenInit /\ [][GenNext]_vars

\* Rows carrying label 1, and the labels drawn for them.
Labelled(l) == {i \in DOMAIN gen.is_anomaly : gen.is_anomaly[i] = l}

Drawn == {gen.anomaly_idx[k] : k \in DOMAIN gen.anomaly_idx}

GenAt(pcs) == gen.pc \in pcs

(* C13: every dataset has exactly N rows (10,000 in the source); the        *)
(* anomaly indices are pairwise distinct, the rows labelled 1 are exactly   *)
(* round(N * 0.05) many (500 in the source) and every other row is          *)
(* labelled 0; after the clamp no row of either label has a negative        *)
(* vibration.                                                               *)
C13_RowsLabelsClamp ==
    /\ AnomalyCount(ConfiguredRows) = 500
    /\ GenAt({"labelled", "normals", "anomalies", "clipped", "saved"}) =>
          /\ DOMAIN gen.is_anomaly = Rows(n_rows)
          /\ \A j, k \in DOMAIN gen.anomaly_idx :
                j # k => gen.anomaly_idx[j] # gen.anomaly_idx[k]
          /\ Cardinality(Labelled(1)) = PyRound(n_rows * ANOMALY_PERCENT, 100)
          /\ Labelled(1) = Drawn
          /\ Labelled(0) = Rows(n_rows) \ Labelled(1)
    /\ GenAt({"clipped"}) =>
          \A i \in Rows(n_rows) : gen.vibration[i] >= 0
    /\ GenAt({"saved"}) =>
          /\ DOMAIN gen.df = Rows(n_rows)
          /\ Cardinality(DOMAIN gen.df) = n_rows
          /\ Cardinality({i \in DOMAIN gen.df : gen.df[i].is_anomaly = 1})
                = PyRound(n_rows * ANOMALY_PERCENT, 100)
          /\ \A i \in DOMAIN gen.df :
                /\ gen.df[i].is_anomaly \in {0, 1}
                /\ gen.df[i].vibration >= 0

\* A saved dataset with two anomalous rows in which the clamp raised a
\* negative normal vibration to zero.
C13_Witness ==
    /\ gen.pc = "saved"
    /\ Cardinality({i \in DOMAIN gen.df : gen.df[i].is_anomaly = 1}) = 2
    /\ \E i \in DOMAIN gen.df :
          /\ gen.df[i].is_anomaly = 0
          /\ gen.df[i].vibration = 0

(* C14: labels are assigned before any value is sampled and stay as they    *)
(* are; every row labelled 1 has its temperature in [80, 100] and its       *)
(* vibration in [3, 5], and the clamp leaves its vibration as sampled;      *)
(* every row labelled 0 has its temperature and vibration from the          *)
(* normal-operation draws.                                                  *)
NormalTemperatures ==
    {NORMAL_TEMPERATURE_LOC + (NORMAL_TEMPERATURE_SCALE * ZScores[k]) \div 1000 :
        k \in DOMAIN ZScores}

NormalVibrations ==
    {NORMAL_VIBRATION_LOC + (NORMAL_VIBRATION_SCALE * ZScores[k]) \div 1000 :
        k \in DOMAIN ZScores}

C14_ValuesFollowLabel ==
    /\ GenAt({"start", "stamped"}) => gen.wrT = <<>> /\ gen.wrV = <<>>
    /\ GenAt({"labelled"}) =>
          \A i \in Rows(n_rows) :
             gen.wrT[i] = [normal |-> 0, anomaly |-> 0] /\ gen.wrV[i] = gen.wrT[i]
    /\ GenAt({"anomalies", "clipped", "saved"}) =>
          /\ \A i \in Labelled(1) :
                /\ gen.temperature[i] >= ANOMALY_TEMPERATURE_LOW
                /\ gen.temperature[i] <= ANOMALY_TEMPERATURE_HIGH
                /\ gen.vibration[i] >= ANOMALY_VIBRATION_LOW
                /\ gen.vibration[i] <= ANOMALY_VIBRATION_HIGH
                /\ gen.wrT[i].anomaly > 0 /\ gen.wrV[i].anomaly > 0
          /\ \A i \in Labelled(0) :
                /\ gen.temperature[i] \in NormalTemperatures
                /\ gen.vibration[i] \in NormalVibrations \cup {CLIP_MIN}
                /\ gen.wrT[i].anomaly = 0 /\ gen.wrV[i].anomaly = 0

C14_LabelsFixed ==
    GenAt({"labelled", "normals", "anomalies", "clipped"}) =>
       gen'.is_anomaly = gen.is_anomaly

C14_ClampKeepsAnomalies ==
    (gen.pc = "anomalies" /\ gen'.pc = "clipped") =>
       \A i \in Labelled(1) : gen'.vibration[i] = gen.vibration[i]

C14_LabelSelectsDistribution ==
    /\ []C14_ValuesFollowLabel
    /\ [][C14_LabelsFixed /\ C14_ClampKeepsAnomalies]_vars

\* A saved dataset whose anomalous rows reach both ends of their ranges
\* and whose normal rows include a temperature above 80.
C14_Witness ==
    /\ gen.pc = "saved"
    /\ \E i, j \in Labelled(1) :
          /\ gen.df[i].temperature = ANOMALY_TEMPERATURE_LOW
          /\ gen.df[j].vibration > 4990
    /\ \E i \in Labelled(0) : gen.df[i].temperature > ANOMALY_TEMPERATURE_LOW

(* C15: the timestamps are strictly increasing, consecutive rows are        *)
(* exactly one minute apart, there are exactly N of them, the last one is   *)
(* the anchor (the generation time truncated to the minute) and the first   *)
(* one is the anchor minus N - 1 minutes.                                   *)
Anchor == gen.now - (gen.now % MINUTE)

C15_MinuteGrid ==
    GenAt({"stamped", "labelled", "normals", "anomalies", "clipped", "saved"}) =>
       /\ Anchor <= gen.now /\ gen.now < Anchor + MINUTE /\ Anchor % MINUTE = 0
       /\ DOMAIN gen.timestamps = Rows(n_rows)
       /\ Cardinality(DOMAIN gen.timestamps) = n_rows
       /\ \A i \in 1 .. (n_rows - 1) :
             /\ gen.timestamps[i] > gen.timestamps[i - 1]
             /\ gen.timestamps[i] - gen.timestamps[i - 1] = MINUTE
       /\ gen.timestamps[n_rows - 1] = Anchor
       /\ gen.timestamps[0] = Anchor - MINUTE * (n_rows - 1)
       /\ GenAt({"saved"}) =>
             \A i \in Rows(n_rows) : gen.df[i].timestamp = gen.timestamps[i]

\* A saved dataset generated at an instant inside a minute.
C15_Witness ==
    /\ gen.pc = "saved"
    /\ gen.now % MINUTE # 0
    /\ gen.df[n_rows - 1].timestamp < gen.now

(* C17: the rows selected by normal_mask and the anomaly indices are        *)
(* disjoint and together are all N rows, so once both sampling steps have   *)
(* run every row's temperature and every row's vibration has been written   *)
(* exactly once, by the step of its label, and no row keeps the array's     *)
(* initial content or is written by both steps.                             *)
Masked == {i \in DOMAIN gen.normal_mask : gen.normal_mask[i]}

Once(wr, i) ==
    /\ wr[i].normal + wr[i].anomaly = 1
    /\ wr[i].normal = 1 <=> i \in Masked
    /\ wr[i].anomaly = 1 <=> i \in Drawn

C17_WrittenOnce ==
    /\ GenAt({"normals", "anomalies", "clipped", "saved"}) =>
          /\ Masked \cap Drawn = {}
          /\ Masked \cup Drawn = Rows(n_rows)
          /\ gen.normal_count + gen.anomaly_count = n_rows
    /\ GenAt({"normals"}) =>
          \A i \in Rows(n_rows) :
             /\ gen.wrT[i].normal + gen.wrT[i].anomaly = IF i \in Masked THEN 1 ELSE 0
             /\ gen.wrV[i] = gen.wrT[i]
    /\ GenAt({"anomalies", "clipped", "saved"}) =>
          \A i \in Rows(n_rows) : Once(gen.wrT, i) /\ Once(gen.wrV, i)

\* Both sampling steps have run over arrays that started with non-zero
\* content, and no row shows it any more.
C17_Witness ==
    /\ gen.pc = "anomalies"
    /\ Cardinality(Masked) = n_rows - 2
    /\ Cardinality(Drawn) = 2
    /\ \A i \in Rows(n_rows) : gen.temperature[i] > 0

=============================================================================
